---- MODULE Spec2Model ----
(***************************************************************************)
(* Model of the GPIO pin registry of raspberry_gpio_api                    *)
(* (src/raspberry_gpio_api/gpio_controller.py) and of the status handler   *)
(* of its request layer (src/raspberry_gpio_api/app.py).                   *)
(*                                                                         *)
(* One GPIOController is shared by the request threads.  Every method is   *)
(* split into the steps at which another thread can observe or change the  *)
(* shared state: a read of configured_pins outside the lock, the           *)
(* acquisition of self.lock, each driver call and each assignment made     *)
(* inside the locked block.  threading.Lock is not reentrant: a thread     *)
(* that asks for the lock it already holds waits forever.                  *)
(*                                                                         *)
(* The driver is the MockGPIO of the source; a call on the real RPi.GPIO   *)
(* may raise, which is the nondeterministic "fail" of each driver step.    *)
(*                                                                         *)
(* A thread's locals live from the call of a public method to its return;  *)
(* what outlives the return is the value handed to the request layer.      *)
(***************************************************************************)
EXTENDS Integers, Sequences, FiniteSets, TLC

(***************************************************************************)
(* Bounds of the model.                                                    *)
(***************************************************************************)
NumThreads == 2          \* concurrent request threads
MaxList == 2             \* longest pin list given to setup_pins
MaxOps == 3              \* public operations begun in one run
MaxTimes == 1            \* largest "times" given to blink

Threads == 1..NumThreads

(***************************************************************************)
(* Program constants.                                                      *)
(***************************************************************************)
HIGH == 1
LOW == 0
NoneV == -1              \* Python's None as a pin state
Free == 0                \* self.lock is not held
MinValidPin == 2
MaxValidPin == 27

valid_pins == MinValidPin..MaxValidPin
Levels == {LOW, HIGH}

\* The pin numbers the requests carry: one outside valid_pins, two inside.
Pins == {1, 17, 27}

PinLists == UNION {[1..n -> Pins] : n \in 1..MaxList}

(***************************************************************************)
(* Python dictionaries: functions whose domain is the key set.             *)
(***************************************************************************)
EmptyDict == [k \in {} |-> LOW]
Keys(d) == DOMAIN d
Put(d, k, v) == [q \in (DOMAIN d) \cup {k} |-> IF q = k THEN v ELSE d[q]]
Get(d, k, default) == IF k \in DOMAIN d THEN d[k] ELSE default

VARIABLES
    \* GPIOController
    configured_pins,     \* self.configured_pins : set of pins
    pin_states,          \* self.pin_states : dict pin -> level
    lock,                \* self.lock : the thread holding it, or Free
    is_initialized,      \* self.is_initialized
    \* MockGPIO
    mock_pin_modes,      \* MockGPIO._pin_modes : dict pin -> mode
    mock_pin_states,     \* MockGPIO._pin_states : dict pin -> level
    \* one request thread each
    op,                  \* the public method the thread is in, or "none"
    pc,                  \* the step the thread is at
    stack,               \* labels to return to, innermost call first
    local,               \* the locals of the methods the thread is in
    ret,                 \* the boolean the last bool-valued call returned
    state,               \* the value the last get_pin_state returned
    escaped,             \* an exception left the public method
    ops,                 \* the number of public methods entered so far
    hist                 \* the calls that returned, in the order they returned

shared == <<configured_pins, pin_states, lock, is_initialized,
            mock_pin_modes, mock_pin_states>>
registry == <<configured_pins, pin_states>>
driver == <<mock_pin_modes, mock_pin_states>>
vars == <<configured_pins, pin_states, lock, is_initialized,
          mock_pin_modes, mock_pin_states,
          op, pc, stack, local, ret, state, escaped, ops, hist>>

Unset == NoneV           \* a local that holds nothing

\* pin: the pin argument or loop variable; lvl: the level turn_on/turn_off
\* writes; initial_state: setup_pin's; success: turn_all_off's accumulator;
\* it_used, it_seen: the set iterator (the size of the set at iter(), the
\* elements already yielded); pins, todo: setup_pins' list and the rest of it
\* the loop has not reached; results, status: the dicts setup_pins and
\* get_all_pins_status build; failed: the pins whose driver call raised (each
\* is logged by the method's except); left: the rounds blink's range(times)
\* has still to give.
NoLocals ==
    [pin |-> Unset, lvl |-> Unset, initial_state |-> Unset, success |-> TRUE,
     it_used |-> 0, it_seen |-> {}, pins |-> <<>>, todo |-> <<>>,
     results |-> EmptyDict, status |-> EmptyDict, failed |-> {}, left |-> 0]

Init ==
    /\ configured_pins = {}
    /\ pin_states = EmptyDict
    /\ lock = Free
    /\ is_initialized = TRUE
    /\ mock_pin_modes = EmptyDict
    /\ mock_pin_states = EmptyDict
    /\ op = [t \in Threads |-> "none"]
    /\ pc = [t \in Threads |-> "done"]
    /\ stack = [t \in Threads |-> <<>>]
    /\ local = [t \in Threads |-> NoLocals]
    /\ ret = [t \in Threads |-> FALSE]
    /\ state = [t \in Threads |-> NoneV]
    /\ escaped = [t \in Threads |-> FALSE]
    /\ ops = 0
    /\ hist = <<>>

(***************************************************************************)
(* Steps shared by the methods.                                            *)
(***************************************************************************)
\* A public method is entered from the request layer with fresh locals.
Start(t, o, label, l) ==
    /\ pc[t] = "done"
    /\ ops < MaxOps
    /\ ops' = ops + 1
    /\ op' = [op EXCEPT ![t] = o]
    /\ pc' = [pc EXCEPT ![t] = label]
    /\ stack' = [stack EXCEPT ![t] = <<>>]
    /\ local' = [local EXCEPT ![t] = l]
    /\ ret' = [ret EXCEPT ![t] = FALSE]
    /\ state' = [state EXCEPT ![t] = NoneV]
    /\ escaped' = [escaped EXCEPT ![t] = FALSE]
    /\ UNCHANGED shared

\* Stay in the method: go to label with locals l.
Goto(t, label, l) ==
    /\ pc' = [pc EXCEPT ![t] = label]
    /\ local' = [local EXCEPT ![t] = l]
    /\ UNCHANGED <<op, stack, ops>>

\* Call a method of the controller: it starts at label and returns to back.
Call(t, label, back, l) ==
    /\ pc' = [pc EXCEPT ![t] = label]
    /\ stack' = [stack EXCEPT ![t] = <<back>> \o @]
    /\ local' = [local EXCEPT ![t] = l]
    /\ UNCHANGED <<op, ops>>

\* Return to the caller with locals l, or leave the public method.
Return(t, l) ==
    /\ IF stack[t] = <<>>
       THEN /\ pc' = [pc EXCEPT ![t] = "done"]
            /\ op' = [op EXCEPT ![t] = "none"]
            /\ local' = [local EXCEPT ![t] = NoLocals]
            /\ UNCHANGED stack
       ELSE /\ pc' = [pc EXCEPT ![t] = Head(stack[t])]
            /\ stack' = [stack EXCEPT ![t] = Tail(@)]
            /\ local' = [local EXCEPT ![t] = l]
            /\ UNCHANGED op
    /\ UNCHANGED ops

\* "with self.lock:" entered; a thread already holding the lock never gets it.
Acquire(t) ==
    /\ lock = Free
    /\ lock' = t

\* "with self.lock:" left, by a return or by an exception.
Release(t) == lock' = Free

\* A driver call on pin p raised: the method's except logs the error.
Raised(t, p) == [local[t] EXCEPT !.failed = @ \cup {p}]

(***************************************************************************)
(* MockGPIO                                                                *)
(***************************************************************************)
\* MockGPIO.output raises ValueError for a pin that has no mode.
MockOutputAccepts(p) == p \in Keys(mock_pin_modes)

\* A bug MockGPIO.input could have: it looks the pin up in the wrong dict and
\* answers the default.
MockInputDefault(p) == Get(EmptyDict, p, LOW)

\* MockGPIO.input: _pin_states.get(pin, LOW)
MockInput(p) == Get(mock_pin_states, p, LOW)

(***************************************************************************)
(* setup_pin(pin, initial_state)                                           *)
(***************************************************************************)
\* A bug _validate_pin could have: the range starts one pin too low.
ValidatePinFromOne(p) == p \in (MinValidPin - 1)..MaxValidPin

_validate_pin(p) == p \in valid_pins

BeginSetupPin(t) ==
    \E p \in Pins, s \in Levels :
        Start(t, "setup_pin", "sp_validate",
              [NoLocals EXCEPT !.pin = p, !.initial_state = s])

\* "if not self._validate_pin(pin): return False"
SetupValidate(t) ==
    /\ pc[t] = "sp_validate"
    /\ IF _validate_pin(local[t].pin)
       THEN /\ Goto(t, "sp_lock", local[t])
            /\ UNCHANGED ret
       ELSE /\ Return(t, local[t])
            /\ ret' = [ret EXCEPT ![t] = FALSE]
    /\ UNCHANGED <<shared, state, escaped>>

SetupLock(t) ==
    /\ pc[t] = "sp_lock"
    /\ Acquire(t)
    /\ Goto(t, "sp_setup", local[t])
    /\ UNCHANGED <<registry, is_initialized, driver, ret, state, escaped>>

\* A bug setup_pin could have: the pin is added to configured_pins before
\* the driver call, and stays there when the call raises.
SetupDriverAddsFirst(t) ==
    /\ pc[t] = "sp_setup"
    /\ \E fail \in BOOLEAN :
         IF fail
         THEN /\ configured_pins' = configured_pins \cup {local[t].pin}
              /\ Release(t)
              /\ Return(t, Raised(t, local[t].pin))
              /\ ret' = [ret EXCEPT ![t] = FALSE]
              /\ UNCHANGED driver
         ELSE /\ mock_pin_modes' = Put(mock_pin_modes, local[t].pin, "OUT")
              /\ mock_pin_states' =
                     Put(mock_pin_states, local[t].pin, local[t].initial_state)
              /\ Goto(t, "sp_add", local[t])
              /\ UNCHANGED <<configured_pins, lock, ret>>
    /\ UNCHANGED <<pin_states, is_initialized, state, escaped>>

\* GPIO.setup(pin, GPIO.OUT, initial=initial_state)
SetupDriver(t) ==
    /\ pc[t] = "sp_setup"
    /\ \E fail \in BOOLEAN :
         IF fail
         THEN /\ Release(t)
              /\ Return(t, Raised(t, local[t].pin))
              /\ ret' = [ret EXCEPT ![t] = FALSE]
              /\ UNCHANGED driver
         ELSE /\ mock_pin_modes' = Put(mock_pin_modes, local[t].pin, "OUT")
              /\ mock_pin_states' =
                     Put(mock_pin_states, local[t].pin, local[t].initial_state)
              /\ Goto(t, "sp_add", local[t])
              /\ UNCHANGED <<lock, ret>>
    /\ UNCHANGED <<registry, is_initialized, state, escaped>>

\* self.configured_pins.add(pin)
SetupAdd(t) ==
    /\ pc[t] = "sp_add"
    /\ configured_pins' = configured_pins \cup {local[t].pin}
    /\ Goto(t, "sp_store", local[t])
    /\ UNCHANGED <<pin_states, lock, is_initialized, driver, ret, state, escaped>>

\* A bug setup_pin could have: the record replaces the dict.
SetupStoreDropsOthers(t) ==
    /\ pc[t] = "sp_store"
    /\ pin_states' = Put(EmptyDict, local[t].pin, local[t].initial_state)
    /\ Release(t)
    /\ Return(t, local[t])
    /\ ret' = [ret EXCEPT ![t] = TRUE]
    /\ UNCHANGED <<configured_pins, is_initialized, driver, state, escaped>>

\* A bug setup_pin could have: the record of a pin that has one is kept
\* (setdefault in place of the assignment).
SetupStoreKeepsOld(t) ==
    /\ pc[t] = "sp_store"
    /\ pin_states' =
           Put(pin_states, local[t].pin,
               Get(pin_states, local[t].pin, local[t].initial_state))
    /\ Release(t)
    /\ Return(t, local[t])
    /\ ret' = [ret EXCEPT ![t] = TRUE]
    /\ UNCHANGED <<configured_pins, is_initialized, driver, state, escaped>>

\* self.pin_states[pin] = initial_state; return True
SetupStore(t) ==
    /\ pc[t] = "sp_store"
    /\ pin_states' = Put(pin_states, local[t].pin, local[t].initial_state)
    /\ Release(t)
    /\ Return(t, local[t])
    /\ ret' = [ret EXCEPT ![t] = TRUE]
    /\ UNCHANGED <<configured_pins, is_initialized, driver, state, escaped>>

(***************************************************************************)
(* setup_pins(pins, initial_state); the request layer gives no             *)
(* initial_state, which leaves the default, LOW                            *)
(***************************************************************************)
BeginSetupPins(t) ==
    \E lst \in PinLists :
        Start(t, "setup_pins", "sps_loop",
              [NoLocals EXCEPT !.pins = lst, !.todo = lst, !.initial_state = LOW])

\* "for pin in pins: results[pin] = self.setup_pin(pin, initial_state)"
SetupPinsNext(t) ==
    /\ pc[t] = "sps_loop"
    /\ local[t].todo # <<>>
    /\ Call(t, "sp_validate", "sps_after",
            [local[t] EXCEPT !.pin = Head(local[t].todo), !.todo = Tail(@)])
    /\ UNCHANGED <<shared, ret, state, escaped>>

\* A bug setup_pins could have: the loop ends at the first pin that fails.
SetupPinsAfterFailFast(t) ==
    /\ pc[t] = "sps_after"
    /\ Goto(t, "sps_loop",
            [local[t] EXCEPT !.results = Put(@, local[t].pin, ret[t]),
                             !.todo = IF ret[t] THEN @ ELSE <<>>])
    /\ UNCHANGED <<shared, ret, state, escaped>>

SetupPinsAfter(t) ==
    /\ pc[t] = "sps_after"
    /\ Goto(t, "sps_loop",
            [local[t] EXCEPT !.results = Put(@, local[t].pin, ret[t])])
    /\ UNCHANGED <<shared, ret, state, escaped>>

\* return results
SetupPinsReturn(t) ==
    /\ pc[t] = "sps_loop"
    /\ local[t].todo = <<>>
    /\ Return(t, local[t])
    /\ UNCHANGED <<shared, ret, state, escaped>>

(***************************************************************************)
(* turn_on(pin) and turn_off(pin): the same method up to the level lvl     *)
(***************************************************************************)
BeginTurn(t) ==
    \E p \in Pins, l \in Levels :
        Start(t, IF l = HIGH THEN "turn_on" ELSE "turn_off", "tn_check",
              [NoLocals EXCEPT !.pin = p, !.lvl = l])

\* A bug turn_on / turn_off could have: the implicit configuration enters
\* setup_pin past its validation.
TurnCheckSkipsValidation(t) ==
    /\ pc[t] = "tn_check"
    /\ IF local[t].pin \notin configured_pins
       THEN Call(t, "sp_lock", "tn_after_setup",
                 [local[t] EXCEPT !.initial_state = LOW])
       ELSE Goto(t, "tn_lock", local[t])
    /\ UNCHANGED <<shared, ret, state, escaped>>

\* "if pin not in self.configured_pins:" read outside the lock, then
\* "self.setup_pin(pin)" with the default initial_state
TurnCheck(t) ==
    /\ pc[t] = "tn_check"
    /\ IF local[t].pin \notin configured_pins
       THEN Call(t, "sp_validate", "tn_after_setup",
                 [local[t] EXCEPT !.initial_state = LOW])
       ELSE Goto(t, "tn_lock", local[t])
    /\ UNCHANGED <<shared, ret, state, escaped>>

\* "if not self.setup_pin(pin): return False"
TurnAfterSetup(t) ==
    /\ pc[t] = "tn_after_setup"
    /\ IF ret[t] THEN Goto(t, "tn_lock", local[t]) ELSE Return(t, local[t])
    /\ UNCHANGED <<shared, ret, state, escaped>>

TurnLock(t) ==
    /\ pc[t] = "tn_lock"
    /\ Acquire(t)
    /\ Goto(t, "tn_output", local[t])
    /\ UNCHANGED <<registry, is_initialized, driver, ret, state, escaped>>

\* GPIO.output(pin, level)
TurnOutput(t) ==
    /\ pc[t] = "tn_output"
    /\ \E fail \in BOOLEAN :
         IF fail \/ ~MockOutputAccepts(local[t].pin)
         THEN /\ Release(t)
              /\ Return(t, Raised(t, local[t].pin))
              /\ ret' = [ret EXCEPT ![t] = FALSE]
              /\ UNCHANGED driver
         ELSE /\ mock_pin_states' = Put(mock_pin_states, local[t].pin, local[t].lvl)
              /\ Goto(t, "tn_store", local[t])
              /\ UNCHANGED <<mock_pin_modes, lock, ret>>
    /\ UNCHANGED <<registry, is_initialized, state, escaped>>

\* A bug turn_on / turn_off could have: the record is not updated.
TurnStoreForgets(t) ==
    /\ pc[t] = "tn_store"
    /\ Release(t)
    /\ Return(t, local[t])
    /\ ret' = [ret EXCEPT ![t] = TRUE]
    /\ UNCHANGED <<registry, is_initialized, driver, state, escaped>>

\* self.pin_states[pin] = level; return True
TurnStore(t) ==
    /\ pc[t] = "tn_store"
    /\ pin_states' = Put(pin_states, local[t].pin, local[t].lvl)
    /\ Release(t)
    /\ Return(t, local[t])
    /\ ret' = [ret EXCEPT ![t] = TRUE]
    /\ UNCHANGED <<configured_pins, is_initialized, driver, state, escaped>>

(***************************************************************************)
(* get_pin_state(pin)                                                      *)
(***************************************************************************)
BeginGetPinState(t) ==
    \E p \in Pins :
        Start(t, "get_pin_state", "gs_check", [NoLocals EXCEPT !.pin = p])

\* A bug get_pin_state could have: LOW for a pin that is not configured.
GetCheckDefaultsLow(t) ==
    /\ pc[t] = "gs_check"
    /\ IF local[t].pin \notin configured_pins
       THEN /\ Return(t, local[t])
            /\ state' = [state EXCEPT ![t] = LOW]
       ELSE /\ Goto(t, "gs_lock", local[t])
            /\ UNCHANGED state
    /\ UNCHANGED <<shared, ret, escaped>>

\* "if pin not in self.configured_pins: return None", outside the lock
GetCheck(t) ==
    /\ pc[t] = "gs_check"
    /\ IF local[t].pin \notin configured_pins
       THEN /\ Return(t, local[t])
            /\ state' = [state EXCEPT ![t] = NoneV]
       ELSE /\ Goto(t, "gs_lock", local[t])
            /\ UNCHANGED state
    /\ UNCHANGED <<shared, ret, escaped>>

GetLock(t) ==
    /\ pc[t] = "gs_lock"
    /\ Acquire(t)
    /\ Goto(t, "gs_input", local[t])
    /\ UNCHANGED <<registry, is_initialized, driver, ret, state, escaped>>

\* current_state = GPIO.input(pin); an exception returns None
GetInput(t) ==
    /\ pc[t] = "gs_input"
    /\ \E fail \in BOOLEAN :
         IF fail
         THEN /\ Release(t)
              /\ Return(t, Raised(t, local[t].pin))
              /\ state' = [state EXCEPT ![t] = NoneV]
         ELSE /\ state' = [state EXCEPT ![t] = MockInput(local[t].pin)]
              /\ Goto(t, "gs_store", local[t])
              /\ UNCHANGED lock
    /\ UNCHANGED <<registry, is_initialized, driver, ret, escaped>>

\* self.pin_states[pin] = current_state; return current_state
GetStore(t) ==
    /\ pc[t] = "gs_store"
    /\ pin_states' = Put(pin_states, local[t].pin, state[t])
    /\ Release(t)
    /\ Return(t, local[t])
    /\ UNCHANGED <<configured_pins, is_initialized, driver, ret, state, escaped>>

(***************************************************************************)
(* "for pin in self.configured_pins:" -- Python's set iterator             *)
(***************************************************************************)
\* iter(self.configured_pins): the iterator remembers the size of the set.
IterNew(t) ==
    [local[t] EXCEPT !.it_used = Cardinality(configured_pins), !.it_seen = {}]

\* next() raises RuntimeError("Set changed size during iteration") when the
\* size differs from the remembered one, before it looks for an element.
IterChanged(t) == Cardinality(configured_pins) # local[t].it_used

\* The elements next() can still yield (the order is the hash table's).
IterLeft(t) == configured_pins \ local[t].it_seen

\* next() yields p
IterYield(t, p) == [local[t] EXCEPT !.pin = p, !.it_seen = @ \cup {p}]

(***************************************************************************)
(* get_all_pins_status()                                                   *)
(***************************************************************************)
StatusEntry(s) ==
    [state |-> s,
     state_name |-> IF s = HIGH THEN "HIGH" ELSE "LOW",
     configured |-> TRUE]

BeginGetAll(t) ==
    Start(t, "get_all_pins_status", "ga_start", NoLocals)

GetAllStart(t) ==
    /\ pc[t] = "ga_start"
    /\ Goto(t, "ga_iter", IterNew(t))
    /\ UNCHANGED <<shared, ret, state, escaped>>

\* The loop is in no try block: the iterator's RuntimeError leaves the method.
GetAllRaise(t) ==
    /\ pc[t] = "ga_iter"
    /\ IterChanged(t)
    /\ escaped' = [escaped EXCEPT ![t] = TRUE]
    /\ Return(t, local[t])
    /\ UNCHANGED <<shared, ret, state>>

\* A bug get_all_pins_status could have: the loop ends after its first pin.
GetAllNextFirstOnly(t) ==
    /\ pc[t] = "ga_iter"
    /\ ~IterChanged(t)
    /\ \E p \in IterLeft(t) :
         Call(t, "gs_check", "ga_after",
              [IterYield(t, p) EXCEPT !.it_seen = configured_pins])
    /\ UNCHANGED <<shared, ret, state, escaped>>

\* state = self.get_pin_state(pin) for the next pin
GetAllNext(t) ==
    /\ pc[t] = "ga_iter"
    /\ ~IterChanged(t)
    /\ \E p \in IterLeft(t) : Call(t, "gs_check", "ga_after", IterYield(t, p))
    /\ UNCHANGED <<shared, ret, state, escaped>>

\* status[pin] = {'state': state, 'state_name': ..., 'configured': True}
GetAllAfter(t) ==
    /\ pc[t] = "ga_after"
    /\ Goto(t, "ga_iter",
            [local[t] EXCEPT !.status = Put(@, local[t].pin, StatusEntry(state[t]))])
    /\ UNCHANGED <<shared, ret, state, escaped>>

\* return status
GetAllReturn(t) ==
    /\ pc[t] = "ga_iter"
    /\ ~IterChanged(t)
    /\ IterLeft(t) = {}
    /\ Return(t, local[t])
    /\ UNCHANGED <<shared, ret, state, escaped>>

(***************************************************************************)
(* turn_all_off()                                                          *)
(***************************************************************************)
BeginTurnAllOff(t) ==
    Start(t, "turn_all_off", "ta_start", NoLocals)

\* success = True; the for loop's iterator is made
TurnAllStart(t) ==
    /\ pc[t] = "ta_start"
    /\ Goto(t, "ta_iter", [IterNew(t) EXCEPT !.success = TRUE])
    /\ UNCHANGED <<shared, ret, state, escaped>>

\* The iterator's RuntimeError is caught by the method's except: return False
TurnAllRaise(t) ==
    /\ pc[t] = "ta_iter"
    /\ IterChanged(t)
    /\ ret' = [ret EXCEPT ![t] = FALSE]
    /\ Return(t, local[t])
    /\ UNCHANGED <<shared, state, escaped>>

\* self.turn_off(pin) for the next pin
TurnAllNext(t) ==
    /\ pc[t] = "ta_iter"
    /\ ~IterChanged(t)
    /\ \E p \in IterLeft(t) :
         Call(t, "tn_check", "ta_after", [IterYield(t, p) EXCEPT !.lvl = LOW])
    /\ UNCHANGED <<shared, ret, state, escaped>>

\* A bug turn_all_off could have: it stops at the first failure.
TurnAllAfterFailFast(t) ==
    /\ pc[t] = "ta_after"
    /\ IF ret[t]
       THEN /\ Goto(t, "ta_iter", local[t])
            /\ UNCHANGED ret
       ELSE /\ Return(t, local[t])
            /\ ret' = [ret EXCEPT ![t] = FALSE]
    /\ UNCHANGED <<shared, state, escaped>>

\* "if not self.turn_off(pin): success = False"
TurnAllAfter(t) ==
    /\ pc[t] = "ta_after"
    /\ Goto(t, "ta_iter", [local[t] EXCEPT !.success = @ /\ ret[t]])
    /\ UNCHANGED <<shared, ret, state, escaped>>

\* return success
TurnAllReturn(t) ==
    /\ pc[t] = "ta_iter"
    /\ ~IterChanged(t)
    /\ IterLeft(t) = {}
    /\ ret' = [ret EXCEPT ![t] = local[t].success]
    /\ Return(t, local[t])
    /\ UNCHANGED <<shared, state, escaped>>

(***************************************************************************)
(* cleanup()                                                               *)
(***************************************************************************)
BeginCleanup(t) ==
    Start(t, "cleanup", "cl_lock", NoLocals)

CleanupLock(t) ==
    /\ pc[t] = "cl_lock"
    /\ Acquire(t)
    /\ Goto(t, "cl_check", local[t])
    /\ UNCHANGED <<registry, is_initialized, driver, ret, state, escaped>>

\* A bug cleanup could have: it does not look at is_initialized.
CleanupCheckAlways(t) ==
    /\ pc[t] = "cl_check"
    /\ Call(t, "ta_start", "cl_gpio", local[t])
    /\ UNCHANGED <<shared, ret, state, escaped>>

\* "if self.is_initialized: self.turn_all_off()", with the lock held
CleanupCheck(t) ==
    /\ pc[t] = "cl_check"
    /\ IF is_initialized
       THEN /\ Call(t, "ta_start", "cl_gpio", local[t])
            /\ UNCHANGED lock
       ELSE /\ Release(t)
            /\ Return(t, local[t])
    /\ UNCHANGED <<registry, is_initialized, driver, ret, state, escaped>>

\* GPIO.cleanup(); an exception is logged by cleanup's except
CleanupDriver(t) ==
    /\ pc[t] = "cl_gpio"
    /\ \E fail \in BOOLEAN :
         IF fail
         THEN /\ Release(t)
              /\ Return(t, Raised(t, Unset))
              /\ UNCHANGED driver
         ELSE /\ mock_pin_states' = EmptyDict
              /\ mock_pin_modes' = EmptyDict
              /\ Goto(t, "cl_clear", local[t])
              /\ UNCHANGED lock
    /\ UNCHANGED <<registry, is_initialized, ret, state, escaped>>

\* self.configured_pins.clear()
CleanupClear(t) ==
    /\ pc[t] = "cl_clear"
    /\ configured_pins' = {}
    /\ Goto(t, "cl_reset", local[t])
    /\ UNCHANGED <<pin_states, lock, is_initialized, driver, ret, state, escaped>>

\* self.pin_states.clear(); self.is_initialized = False
CleanupReset(t) ==
    /\ pc[t] = "cl_reset"
    /\ pin_states' = EmptyDict
    /\ is_initialized' = FALSE
    /\ Release(t)
    /\ Return(t, local[t])
    /\ UNCHANGED <<configured_pins, driver, ret, state, escaped>>

(***************************************************************************)
(* toggle(pin)                                                             *)
(***************************************************************************)
BeginToggle(t) ==
    \E p \in Pins : Start(t, "toggle", "tg_read", [NoLocals EXCEPT !.pin = p])

\* current_state = self.get_pin_state(pin)
ToggleRead(t) ==
    /\ pc[t] = "tg_read"
    /\ Call(t, "gs_check", "tg_branch", local[t])
    /\ UNCHANGED <<shared, ret, state, escaped>>

\* "if current_state == GPIO.HIGH: return self.turn_off(pin)"
\* "else: return self.turn_on(pin)"
ToggleBranch(t) ==
    /\ pc[t] = "tg_branch"
    /\ Call(t, "tn_check", "tg_return",
            [local[t] EXCEPT !.lvl = IF state[t] = HIGH THEN LOW ELSE HIGH])
    /\ UNCHANGED <<shared, ret, state, escaped>>

ToggleReturn(t) ==
    /\ pc[t] = "tg_return"
    /\ Return(t, local[t])
    /\ UNCHANGED <<shared, ret, state, escaped>>

(***************************************************************************)
(* pulse(pin, duration)                                                    *)
(***************************************************************************)
BeginPulse(t) ==
    \E p \in Pins : Start(t, "pulse", "pl_on", [NoLocals EXCEPT !.pin = p])

\* self.turn_on(pin)
PulseOn(t) ==
    /\ pc[t] = "pl_on"
    /\ Call(t, "tn_check", "pl_after_on", [local[t] EXCEPT !.lvl = HIGH])
    /\ UNCHANGED <<shared, ret, state, escaped>>

\* "if not self.turn_on(pin): return False"
PulseAfterOn(t) ==
    /\ pc[t] = "pl_after_on"
    /\ IF ret[t] THEN Goto(t, "pl_sleep", local[t]) ELSE Return(t, local[t])
    /\ UNCHANGED <<shared, ret, state, escaped>>

\* time.sleep(duration)
PulseSleep(t) ==
    /\ pc[t] = "pl_sleep"
    /\ Goto(t, "pl_off", local[t])
    /\ UNCHANGED <<shared, ret, state, escaped>>

\* return self.turn_off(pin)
PulseOff(t) ==
    /\ pc[t] = "pl_off"
    /\ Call(t, "tn_check", "pl_return", [local[t] EXCEPT !.lvl = LOW])
    /\ UNCHANGED <<shared, ret, state, escaped>>

PulseReturn(t) ==
    /\ pc[t] = "pl_return"
    /\ Return(t, local[t])
    /\ UNCHANGED <<shared, ret, state, escaped>>

(***************************************************************************)
(* blink(pin, times, interval)                                             *)
(***************************************************************************)
BeginBlink(t) ==
    \E p \in Pins, n \in 0..MaxTimes :
        Start(t, "blink", "bk_loop", [NoLocals EXCEPT !.pin = p, !.left = n])

\* "for _ in range(times):" gives a round: self.turn_on(pin)
BlinkOn(t) ==
    /\ pc[t] = "bk_loop"
    /\ local[t].left > 0
    /\ Call(t, "tn_check", "bk_after_on",
            [local[t] EXCEPT !.lvl = HIGH, !.left = @ - 1])
    /\ UNCHANGED <<shared, ret, state, escaped>>

\* A bug blink could have: the result of turn_on is not looked at.
BlinkAfterOnIgnores(t) ==
    /\ pc[t] = "bk_after_on"
    /\ Goto(t, "bk_sleep_on", local[t])
    /\ UNCHANGED <<shared, ret, state, escaped>>

\* "if not self.turn_on(pin): return False"
BlinkAfterOn(t) ==
    /\ pc[t] = "bk_after_on"
    /\ IF ret[t] THEN Goto(t, "bk_sleep_on", local[t]) ELSE Return(t, local[t])
    /\ UNCHANGED <<shared, ret, state, escaped>>

\* time.sleep(interval)
BlinkSleepOn(t) ==
    /\ pc[t] = "bk_sleep_on"
    /\ Goto(t, "bk_off", local[t])
    /\ UNCHANGED <<shared, ret, state, escaped>>

\* self.turn_off(pin)
BlinkOff(t) ==
    /\ pc[t] = "bk_off"
    /\ Call(t, "tn_check", "bk_after_off", [local[t] EXCEPT !.lvl = LOW])
    /\ UNCHANGED <<shared, ret, state, escaped>>

\* "if not self.turn_off(pin): return False"
BlinkAfterOff(t) ==
    /\ pc[t] = "bk_after_off"
    /\ IF ret[t] THEN Goto(t, "bk_sleep_off", local[t]) ELSE Return(t, local[t])
    /\ UNCHANGED <<shared, ret, state, escaped>>

\* time.sleep(interval)
BlinkSleepOff(t) ==
    /\ pc[t] = "bk_sleep_off"
    /\ Goto(t, "bk_loop", local[t])
    /\ UNCHANGED <<shared, ret, state, escaped>>

\* range(times) is used up: return True
BlinkReturn(t) ==
    /\ pc[t] = "bk_loop"
    /\ local[t].left = 0
    /\ ret' = [ret EXCEPT ![t] = TRUE]
    /\ Return(t, local[t])
    /\ UNCHANGED <<shared, state, escaped>>

(***************************************************************************)
(* The request threads                                                     *)
(***************************************************************************)
Begin(t) ==
    \/ BeginSetupPin(t)
    \/ BeginSetupPins(t)
    \/ BeginTurn(t)
    \/ BeginGetPinState(t)
    \/ BeginGetAll(t)
    \/ BeginTurnAllOff(t)
    \/ BeginCleanup(t)

Step(t) ==
    \/ SetupValidate(t) \/ SetupLock(t) \/ SetupDriver(t) \/ SetupAdd(t)
    \/ SetupStore(t)
    \/ SetupPinsNext(t) \/ SetupPinsAfter(t) \/ SetupPinsReturn(t)
    \/ TurnCheck(t) \/ TurnAfterSetup(t) \/ TurnLock(t) \/ TurnOutput(t)
    \/ TurnStore(t)
    \/ GetCheck(t) \/ GetLock(t) \/ GetInput(t) \/ GetStore(t)
    \/ GetAllStart(t) \/ GetAllRaise(t) \/ GetAllNext(t) \/ GetAllAfter(t)
    \/ GetAllReturn(t)
    \/ TurnAllStart(t) \/ TurnAllRaise(t) \/ TurnAllNext(t) \/ TurnAllAfter(t)
    \/ TurnAllReturn(t)
    \/ CleanupLock(t) \/ CleanupCheck(t) \/ CleanupDriver(t) \/ CleanupClear(t)
    \/ CleanupReset(t)

Next == \E t \in Threads : (Begin(t) \/ Step(t)) /\ UNCHANGED hist

Spec == Init /\ [][Next]_vars

(***************************************************************************)
(* Sequential runs: a public method is entered only when no other thread   *)
(* is inside one.  The two RuntimeError steps of the set iterator need     *)
(* another thread to add a pin while the loop runs, so they are no steps   *)
(* of a sequential run.                                                    *)
(***************************************************************************)
Quiet(t) == \A u \in Threads \ {t} : pc[u] = "done"

SeqStep(t) ==
    \/ SetupValidate(t) \/ SetupLock(t) \/ SetupDriver(t) \/ SetupAdd(t)
    \/ SetupStore(t)
    \/ SetupPinsNext(t) \/ SetupPinsAfter(t) \/ SetupPinsReturn(t)
    \/ TurnCheck(t) \/ TurnAfterSetup(t) \/ TurnLock(t) \/ TurnOutput(t)
    \/ TurnStore(t)
    \/ GetCheck(t) \/ GetLock(t) \/ GetInput(t) \/ GetStore(t)
    \/ GetAllStart(t) \/ GetAllNext(t) \/ GetAllAfter(t) \/ GetAllReturn(t)
    \/ TurnAllStart(t) \/ TurnAllNext(t) \/ TurnAllAfter(t) \/ TurnAllReturn(t)
    \/ CleanupLock(t) \/ CleanupCheck(t) \/ CleanupDriver(t) \/ CleanupClear(t)
    \/ CleanupReset(t)

SeqNext ==
    \E t \in Threads : Quiet(t) /\ (Begin(t) \/ SeqStep(t)) /\ UNCHANGED hist

SeqSpec == Init /\ [][SeqNext]_vars

(***************************************************************************)
(* Vocabulary of the properties                                            *)
(***************************************************************************)
\* Thread t takes a step.
Moves(t) == pc'[t] # pc[t] \/ op'[t] # op[t] \/ local'[t] # local[t]

\* Thread t's step leaves its public method.
Leaves(t) == op[t] # "none" /\ op'[t] = "none"

\* Thread t's step returns from the method it is in to that method's caller.
Returns(t) ==
    /\ Moves(t)
    /\ pc'[t] = (IF stack[t] = <<>> THEN "done" ELSE Head(stack[t]))
    /\ stack'[t] = (IF stack[t] = <<>> THEN <<>> ELSE Tail(stack[t]))

LockLabels == {"sp_lock", "tn_lock", "gs_lock", "cl_lock"}
TurnOps == {"turn_on", "turn_off"}

\* The labels whose step reads or writes configured_pins or pin_states.
RegistryLabels ==
    {"sp_add", "sp_store", "tn_check", "tn_store", "gs_check", "gs_store",
     "ga_start", "ga_iter", "ta_start", "ta_iter", "cl_clear", "cl_reset"}

\* What the registry and the driver hold for pin p.
Configured(p) == p \in configured_pins
Record(p) == Get(pin_states, p, NoneV)
DriverLevel(p) == Get(mock_pin_states, p, NoneV)
DriverMode(p) == Get(mock_pin_modes, p, "")
PinView(p) == <<Configured(p), Record(p), DriverLevel(p), DriverMode(p)>>

\* The same after the step.
RecordNext(p) == Get(pin_states', p, NoneV)
DriverLevelNext(p) == Get(mock_pin_states', p, NoneV)
PinViewNext(p) ==
    <<p \in configured_pins', RecordNext(p), DriverLevelNext(p),
      Get(mock_pin_modes', p, "")>>

(***************************************************************************)
(* Sequential runs that keep what the calls returned: when a call returns  *)
(* to the request layer, its name, its pin argument, the level it was to   *)
(* write and the values it hands back are added to hist.  So is every      *)
(* setup_pin another method called (turn_on and turn_off for a pin that is *)
(* not configured), when it returns.                                       *)
(***************************************************************************)
\* Thread t's step returns from a setup_pin that another method called.
InnerSetupReturns(t) ==
    /\ pc[t] \in {"sp_validate", "sp_setup", "sp_store"}
    /\ Returns(t)
    /\ ~Leaves(t)

Completed(t) ==
    [op |-> IF InnerSetupReturns(t) THEN "setup_pin" ELSE op[t],
     pin |-> local[t].pin,
     lvl |-> IF InnerSetupReturns(t) \/ op[t] = "setup_pin"
             THEN local[t].initial_state ELSE local[t].lvl,
     ret |-> ret'[t],
     state |-> state'[t]]

Logged(t) ==
    IF Leaves(t) \/ InnerSetupReturns(t)
    THEN hist' = Append(hist, Completed(t))
    ELSE UNCHANGED hist

\* The pins whose setup_pin returned True after the last cleanup returned.
ConfiguredSinceRelease ==
    LET released == {i \in DOMAIN hist : hist[i].op = "cleanup"}
        since == {i \in DOMAIN hist : \A j \in released : j < i}
    IN  {hist[i].pin : i \in {j \in since : hist[j].op = "setup_pin" /\ hist[j].ret}}

\* The calls of these runs: the methods that take one pin, turn_all_off and
\* cleanup.
HistBegin(t) ==
    \/ BeginSetupPin(t)
    \/ BeginTurn(t)
    \/ BeginGetPinState(t)
    \/ BeginTurnAllOff(t)
    \/ BeginCleanup(t)

HistStep(t) ==
    \/ SetupValidate(t) \/ SetupLock(t) \/ SetupDriver(t) \/ SetupAdd(t)
    \/ SetupStore(t)
    \/ TurnCheck(t) \/ TurnAfterSetup(t) \/ TurnLock(t) \/ TurnOutput(t)
    \/ TurnStore(t)
    \/ GetCheck(t) \/ GetLock(t) \/ GetInput(t) \/ GetStore(t)
    \/ TurnAllStart(t) \/ TurnAllNext(t) \/ TurnAllAfter(t) \/ TurnAllReturn(t)
    \/ CleanupLock(t) \/ CleanupCheck(t) \/ CleanupDriver(t) \/ CleanupClear(t)
    \/ CleanupReset(t)

HistNext ==
    \E t \in Threads : Quiet(t) /\ (HistBegin(t) \/ HistStep(t)) /\ Logged(t)

HistSpec == Init /\ [][HistNext]_vars

\* The steps of setup_pin, turn_on / turn_off and get_pin_state that call
\* the driver, each with the label it goes to when the call did not raise.
DriverLabels == {"sp_setup", "tn_output", "gs_input"}
AfterDriver(label) ==
    CASE label = "sp_setup" -> "sp_add"
      [] label = "tn_output" -> "tn_store"
      [] label = "gs_input" -> "gs_store"

\* Thread t's step is a driver call that raises.
DriverRaises(t) ==
    pc[t] \in DriverLabels /\ Moves(t) /\ pc'[t] # AfterDriver(pc[t])

\* The labels of setup_pin, turn_on / turn_off and get_pin_state.
SinglePinLabels ==
    {"sp_validate", "sp_lock", "sp_setup", "sp_add", "sp_store",
     "tn_check", "tn_after_setup", "tn_lock", "tn_output", "tn_store",
     "gs_check", "gs_lock", "gs_input", "gs_store"}

(***************************************************************************)
(* The methods the request layer does not reach: threads that call toggle, *)
(* pulse and blink next to the methods these are made of.                  *)
(***************************************************************************)
LibBegin(t) ==
    \/ BeginSetupPin(t)
    \/ BeginTurn(t)
    \/ BeginGetPinState(t)
    \/ BeginToggle(t)
    \/ BeginPulse(t)
    \/ BeginBlink(t)

LibStep(t) ==
    \/ SetupValidate(t) \/ SetupLock(t) \/ SetupDriver(t) \/ SetupAdd(t)
    \/ SetupStore(t)
    \/ TurnCheck(t) \/ TurnAfterSetup(t) \/ TurnLock(t) \/ TurnOutput(t)
    \/ TurnStore(t)
    \/ GetCheck(t) \/ GetLock(t) \/ GetInput(t) \/ GetStore(t)
    \/ ToggleRead(t) \/ ToggleBranch(t) \/ ToggleReturn(t)
    \/ PulseOn(t) \/ PulseAfterOn(t) \/ PulseSleep(t) \/ PulseOff(t)
    \/ PulseReturn(t)
    \/ BlinkOn(t) \/ BlinkAfterOn(t) \/ BlinkSleepOn(t) \/ BlinkOff(t)
    \/ BlinkAfterOff(t) \/ BlinkSleepOff(t) \/ BlinkReturn(t)

LibNext == \E t \in Threads : (LibBegin(t) \/ LibStep(t)) /\ UNCHANGED hist

LibSpec == Init /\ [][LibNext]_vars

\* Threads that configure pins and toggle them; what the calls returned is
\* kept.
ToggleStep(t) ==
    \/ SetupValidate(t) \/ SetupLock(t) \/ SetupDriver(t) \/ SetupAdd(t)
    \/ SetupStore(t)
    \/ TurnCheck(t) \/ TurnAfterSetup(t) \/ TurnLock(t) \/ TurnOutput(t)
    \/ TurnStore(t)
    \/ GetCheck(t) \/ GetLock(t) \/ GetInput(t) \/ GetStore(t)
    \/ ToggleRead(t) \/ ToggleBranch(t) \/ ToggleReturn(t)

ToggleNext ==
    \E t \in Threads :
        (BeginSetupPin(t) \/ BeginToggle(t) \/ ToggleStep(t)) /\ Logged(t)

ToggleSpec == Init /\ [][ToggleNext]_vars

\* The labels at which pulse and blink sleep.
SleepLabels == {"pl_sleep", "bk_sleep_on", "bk_sleep_off"}

\* The methods that take one pin.
SinglePinOps == {"setup_pin", "turn_on", "turn_off", "get_pin_state"}

(***************************************************************************)
(* The request layer: get_pin_status's response for what get_pin_state     *)
(* returned (app.py)                                                       *)
(***************************************************************************)
Truthy(s) == s # NoneV /\ s # 0

get_pin_status(p, s) ==
    [status |-> "success", pin |-> p,
     state |-> IF Truthy(s) THEN "HIGH" ELSE "LOW", value |-> s]

(***************************************************************************)
(* C1: every cleanup() returns; in particular the thread in cleanup never  *)
(* waits for the registry lock while it holds that lock itself.            *)
(***************************************************************************)
C1_ReleaseNeverWaitsForOwnLock ==
    \A t \in Threads :
        ~(op[t] = "cleanup" /\ pc[t] \in LockLabels /\ lock = t)

(***************************************************************************)
(* C2: when cleanup() returns (its driver call not having raised), the     *)
(* registry is empty and the initialization flag is clear.                 *)
(***************************************************************************)
C2_RegistryEmptyAfterRelease ==
    [][\A t \in Threads :
          (op[t] = "cleanup" /\ Leaves(t) /\ pc[t] # "cl_gpio")
              => /\ configured_pins' = {}
                 /\ pin_states' = EmptyDict
                 /\ ~is_initialized']_vars

(***************************************************************************)
(* C3: a thread about to read or write the registry holds the lock.        *)
(***************************************************************************)
C3_RegistryAccessUnderLock ==
    \A t \in Threads : pc[t] \in RegistryLabels => lock = t

(***************************************************************************)
(* C4: no exception leaves a public method of the controller.              *)
(***************************************************************************)
C4_NoFaultEscapes ==
    \A t \in Threads : ~escaped[t]

(***************************************************************************)
(* C8: a configure that succeeds leaves the controller initialized, also   *)
(* after an earlier cleanup().                                             *)
(***************************************************************************)
C8_ConfigureReinitializes ==
    [][\A t \in Threads :
          (pc[t] = "sp_store" /\ Moves(t)) => is_initialized']_vars

(***************************************************************************)
(* C5: setup_pin on a pin outside valid_pins returns False in its one      *)
(* step, which changes neither the registry nor the driver (nor the lock   *)
(* and the flag); so no pin outside valid_pins is ever in the registry,    *)
(* and none ever reaches the driver, whether the call succeeds (the pin    *)
(* gets a mode) or raises (the pin is logged as failed).                   *)
(***************************************************************************)
C5_InvalidPinRejected ==
    /\ [](/\ configured_pins \subseteq valid_pins
          /\ Keys(pin_states) \subseteq valid_pins
          /\ Keys(mock_pin_modes) \subseteq valid_pins
          /\ Keys(mock_pin_states) \subseteq valid_pins
          /\ \A t \in Threads : local[t].failed \subseteq valid_pins \cup {Unset})
    /\ [][\A t \in Threads :
             (pc[t] = "sp_validate" /\ local[t].pin \notin valid_pins /\ Moves(t))
                 => /\ Returns(t)
                    /\ ~ret'[t]
                    /\ UNCHANGED shared]_vars

\* A setup_pin call on the invalid pin is about to be decided while the
\* registry holds a pin.
C5_Witness ==
    \E t \in Threads :
        /\ op[t] = "setup_pin"
        /\ pc[t] = "sp_validate"
        /\ local[t].pin \notin valid_pins
        /\ configured_pins # {}

(***************************************************************************)
(* C6: turn_on / turn_off on a pin outside valid_pins only passes the      *)
(* check, the validation of the implicit setup_pin and the test of its     *)
(* result: it changes no shared state and returns False.  On any pin the   *)
(* call returns False only if the pin is invalid or a driver call raised   *)
(* (the mock never refuses the write of a pin the method got to), and when *)
(* it returns True the pin is configured and its record and its driver     *)
(* level are the level written.                                            *)
(***************************************************************************)
C6_ImplicitConfigure ==
    /\ [](\A t \in Threads :
            /\ (op[t] \in TurnOps /\ local[t].pin \notin valid_pins)
                   => pc[t] \in {"tn_check", "sp_validate", "tn_after_setup"}
            /\ pc[t] = "tn_output" => MockOutputAccepts(local[t].pin))
    /\ [][\A t \in Threads :
             (op[t] \in TurnOps /\ Moves(t))
                 => /\ local[t].pin \notin valid_pins
                        => (UNCHANGED shared /\ (Leaves(t) => ~ret'[t]))
                    /\ (Leaves(t) /\ ~ret'[t])
                        => \/ local[t].pin \notin valid_pins
                           \/ local[t].pin \in local[t].failed
                           \/ pc[t] = "tn_output"
                    /\ (Leaves(t) /\ ret'[t])
                        => /\ local[t].pin \in configured_pins'
                           /\ RecordNext(local[t].pin) = local[t].lvl
                           /\ DriverLevelNext(local[t].pin) = local[t].lvl]_vars

\* turn_on has configured its pin itself (setup_pin stored LOW) and has
\* written HIGH to the driver; the record is still to be stored.
C6_Witness ==
    \E t \in Threads :
        /\ op[t] = "turn_on"
        /\ pc[t] = "tn_store"
        /\ local[t].initial_state = LOW
        /\ Record(local[t].pin) = LOW
        /\ DriverLevel(local[t].pin) = HIGH

(***************************************************************************)
(* C7: no step of a turn_on / turn_off changes what the registry and the   *)
(* driver hold for a pin other than its own; and a call that runs while    *)
(* another thread is in turn_on / turn_off on a different pin returns      *)
(* False only if its pin is invalid or one of its driver calls raised, and *)
(* when it returns True its pin's record and driver level are the level of *)
(* its own call.                                                           *)
(***************************************************************************)
C7_ConcurrentSetLevel ==
    [][\A t \in Threads :
          (op[t] \in TurnOps /\ Moves(t))
              => /\ \A q \in Pins \ {local[t].pin} : PinViewNext(q) = PinView(q)
                 /\ \A u \in Threads \ {t} :
                      (op[u] \in TurnOps /\ local[u].pin # local[t].pin)
                          => /\ (Leaves(t) /\ ~ret'[t])
                                 => \/ local[t].pin \notin valid_pins
                                    \/ local[t].pin \in local[t].failed
                                    \/ pc[t] = "tn_output"
                             /\ (Leaves(t) /\ ret'[t])
                                 => /\ RecordNext(local[t].pin) = local[t].lvl
                                    /\ DriverLevelNext(local[t].pin) = local[t].lvl]_vars

\* Two threads have each configured their own pin on the way and written
\* HIGH and LOW; one holds the lock before its store, the other waits.
C7_Witness ==
    \E t, u \in Threads :
        /\ op[t] = "turn_on" /\ op[u] = "turn_off"
        /\ local[t].pin # local[u].pin
        /\ local[t].initial_state = LOW /\ local[u].initial_state = LOW
        /\ pc[t] = "tn_store" /\ pc[u] = "tn_lock"
        /\ {local[t].pin, local[u].pin} \subseteq configured_pins

(***************************************************************************)
(* C9: with no other thread running, turn_all_off returns after it has     *)
(* tried turn_off on every configured pin; it returns True exactly when no *)
(* write raised, and every configured pin whose write did not raise is LOW *)
(* in its record and at the driver.                                        *)
(***************************************************************************)
C9_AllOffBestEffort ==
    [][\A t \in Threads :
          (op[t] = "turn_all_off" /\ Leaves(t))
              => /\ local[t].it_seen = configured_pins'
                 /\ ret'[t] = (local[t].failed = {})
                 /\ \A p \in configured_pins' \ local[t].failed :
                      RecordNext(p) = LOW /\ DriverLevelNext(p) = LOW]_vars

\* turn_all_off is about to return: of two configured pins the write of one
\* raised and left it HIGH, the other pin was tried all the same and is LOW.
C9_Witness ==
    \E t \in Threads :
        /\ op[t] = "turn_all_off"
        /\ pc[t] = "ta_iter"
        /\ IterLeft(t) = {}
        /\ ~local[t].success
        /\ Cardinality(configured_pins) = 2
        /\ \E p \in configured_pins :
             /\ local[t].failed = {p}
             /\ Record(p) = HIGH
             /\ \A q \in configured_pins \ {p} : Record(q) = LOW /\ DriverLevel(q) = LOW

(***************************************************************************)
(* C10: get_pin_state on a pin that is not configured returns None in its  *)
(* one step, which calls no driver and changes no shared state; and the    *)
(* response get_pin_status builds for None differs from the one it builds  *)
(* for LOW.                                                                *)
(***************************************************************************)
C10_UnconfiguredReadIsAbsent ==
    [][\A t \in Threads :
          (pc[t] = "gs_check" /\ local[t].pin \notin configured_pins /\ Moves(t))
              => /\ Returns(t)
                 /\ state'[t] = NoneV
                 /\ state'[t] \notin Levels
                 /\ UNCHANGED shared
                 /\ get_pin_status(local[t].pin, state'[t])
                        # get_pin_status(local[t].pin, LOW)]_vars

\* get_pin_state is about to check a valid pin that is not configured while
\* another pin is.
C10_Witness ==
    \E t \in Threads :
        /\ op[t] = "get_pin_state"
        /\ pc[t] = "gs_check"
        /\ local[t].pin \in valid_pins \ configured_pins
        /\ configured_pins # {}

(***************************************************************************)
(* C11: in a sequential run, after setup_pin(p, LOW) returned True and     *)
(* then turn_on(p) or turn_off(p) returned True, a get_pin_state(p) whose  *)
(* driver read does not raise returns the level that was written: HIGH     *)
(* after turn_on, LOW after turn_off.  Calls on other pins may come in     *)
(* between.                                                                *)
(***************************************************************************)
C11_ReadReturnsWrittenLevel ==
    \A i, j, k \in DOMAIN hist :
        ( /\ i < j /\ j < k
          /\ hist[i].op = "setup_pin" /\ hist[i].lvl = LOW /\ hist[i].ret
          /\ hist[j].op \in TurnOps /\ hist[j].pin = hist[i].pin /\ hist[j].ret
          /\ hist[k].op = "get_pin_state" /\ hist[k].pin = hist[i].pin
          /\ hist[k].state # NoneV
          /\ \A m \in ((i + 1)..(k - 1)) \ {j} :
                 hist[m].op \in SinglePinOps /\ hist[m].pin # hist[i].pin )
            => /\ hist[k].state = hist[j].lvl
               /\ hist[j].op = "turn_on" => hist[k].state = HIGH
               /\ hist[j].op = "turn_off" => hist[k].state = LOW

\* setup_pin(p, LOW), turn_on(p) and get_pin_state(p) have returned, in this
\* order and without a driver failure.
C11_Witness ==
    /\ Len(hist) = 3
    /\ hist[1].op = "setup_pin" /\ hist[1].lvl = LOW /\ hist[1].ret
    /\ hist[2].op = "turn_on" /\ hist[2].pin = hist[1].pin /\ hist[2].ret
    /\ hist[3].op = "get_pin_state" /\ hist[3].pin = hist[1].pin
    /\ hist[3].state = HIGH

(***************************************************************************)
(* C12: setup_pins calls setup_pin on the pins of its list in the order of *)
(* the list, whatever the earlier calls returned: the pins still to come   *)
(* are the rest of the list, the results hold one entry for each pin       *)
(* already tried, and the entry is what setup_pin returned for that pin.   *)
(* The method returns when the list is used up; then there is an entry for *)
(* every pin of the list, True only for a pin that is configured, False    *)
(* only for a pin that is invalid or whose driver call raised.             *)
(***************************************************************************)
C12_ConfigureManyTriesEveryPin ==
    /\ [](\A t \in Threads :
            op[t] = "setup_pins"
                => LET n == Len(local[t].pins)
                       k == n - Len(local[t].todo)
                       tried == IF pc[t] = "sps_loop" THEN k ELSE k - 1
                   IN  /\ k \in 0..n
                       /\ local[t].todo = SubSeq(local[t].pins, k + 1, n)
                       /\ pc[t] # "sps_loop" => local[t].pin = local[t].pins[k]
                       /\ Keys(local[t].results) =
                              {local[t].pins[i] : i \in 1..tried}
                       /\ \A p \in Keys(local[t].results) :
                              /\ local[t].results[p] => Configured(p)
                              /\ ~local[t].results[p]
                                     => p \notin valid_pins \/ p \in local[t].failed)
    /\ [][\A t \in Threads :
             (op[t] = "setup_pins" /\ Moves(t))
                 => /\ (pc[t] = "sps_loop" /\ local[t].todo # <<>>)
                        => /\ pc'[t] = "sp_validate"
                           /\ local'[t].pin = Head(local[t].todo)
                    /\ pc[t] = "sps_after"
                        => /\ pc'[t] = "sps_loop"
                           /\ local'[t].results[local[t].pin] = ret[t]
                    /\ Leaves(t)
                        => /\ local[t].todo = <<>>
                           /\ pc[t] = "sps_loop"]_vars

\* setup_pins is about to return the results of a list of two pins: the
\* first pin failed, the second was tried all the same and is configured.
C12_Witness ==
    \E t \in Threads :
        /\ op[t] = "setup_pins"
        /\ pc[t] = "sps_loop"
        /\ local[t].todo = <<>>
        /\ Len(local[t].pins) = 2
        /\ ~local[t].results[local[t].pins[1]]
        /\ local[t].results[local[t].pins[2]]
        /\ Configured(local[t].pins[2])

(***************************************************************************)
(* C13: with no other thread running, get_all_pins_status returns a dict   *)
(* whose keys are exactly the configured pins; every entry says configured *)
(* and holds the level the driver has for the pin, HIGH or LOW, with the   *)
(* name of that level.  (The entry of a pin whose driver read raised holds *)
(* None, which is what get_pin_state returned for it.)  The call changes   *)
(* neither the set of configured pins nor the driver.                      *)
(***************************************************************************)
C13_SnapshotCoversConfiguredPins ==
    [][\A t \in Threads :
          (op[t] = "get_all_pins_status" /\ Leaves(t))
              => /\ ~escaped'[t]
                 /\ Keys(local[t].status) = configured_pins'
                 /\ UNCHANGED <<configured_pins, driver>>
                 /\ \A p \in Keys(local[t].status) :
                      LET e == local[t].status[p]
                      IN  /\ e.configured
                          /\ p \notin local[t].failed
                                 => /\ e.state \in Levels
                                    /\ e.state = DriverLevelNext(p)
                                    /\ e.state_name =
                                          (IF e.state = HIGH THEN "HIGH" ELSE "LOW")
                          /\ p \in local[t].failed => e.state = NoneV]_vars

\* get_all_pins_status is about to return {17: HIGH, 27: LOW}: both pins are
\* configured, 17 was turned on after it had been configured LOW.
C13_Witness ==
    \E t \in Threads :
        /\ op[t] = "get_all_pins_status"
        /\ pc[t] = "ga_iter"
        /\ IterLeft(t) = {}
        /\ configured_pins = {17, 27}
        /\ Keys(local[t].status) = {17, 27}
        /\ local[t].status[17] = StatusEntry(HIGH)
        /\ local[t].status[27] = StatusEntry(LOW)

(***************************************************************************)
(* C14: a setup_pin whose driver call raises returns False, and none of    *)
(* its steps (the validation, the lock, the call that raises) changes      *)
(* configured_pins or pin_states, so its pin is configured, with the       *)
(* record it had, exactly if it was before.  A driver call that raises in  *)
(* setup_pin, turn_on / turn_off or get_pin_state changes nothing in the   *)
(* registry, and no step of these methods changes the membership or the    *)
(* record of a pin other than the method's own.                            *)
(***************************************************************************)
C14_DriverFailureLeavesRegistry ==
    [][\A t \in Threads :
          /\ (pc[t] \in {"sp_validate", "sp_lock"} /\ Moves(t))
                 => UNCHANGED registry
          /\ (pc[t] = "sp_setup" /\ DriverRaises(t))
                 => Returns(t) /\ ~ret'[t]
          /\ DriverRaises(t)
                 => /\ UNCHANGED registry
                    /\ Returns(t)
                    /\ lock' = Free
                    /\ pc[t] = "tn_output" => ~ret'[t]
                    /\ pc[t] = "gs_input" => state'[t] = NoneV
          /\ (pc[t] \in SinglePinLabels /\ Moves(t))
                 => \A q \in Pins \ {local[t].pin} :
                        /\ (q \in configured_pins') = Configured(q)
                        /\ RecordNext(q) = Record(q)]_vars

\* setup_pins has called setup_pin on a pin that was configured and HIGH;
\* the driver call raised and setup_pin returned False: the pin is still
\* configured and HIGH, next to another configured pin.
C14_Witness ==
    \E t \in Threads :
        /\ op[t] = "setup_pins"
        /\ pc[t] = "sps_after"
        /\ local[t].pin \in local[t].failed
        /\ ~ret[t]
        /\ Configured(local[t].pin)
        /\ Record(local[t].pin) = HIGH
        /\ configured_pins # {local[t].pin}

(***************************************************************************)
(* C15: a cleanup() that finds is_initialized False only takes the lock,   *)
(* tests the flag, gives the lock back and returns: no step of it changes  *)
(* the registry, the driver or the flag.  GPIO.cleanup() is called only    *)
(* while is_initialized is True, and when it has succeeded the same locked *)
(* block clears the flag, so the driver is not released a second time.     *)
(* While the flag is False no thread waits for the lock it holds itself,   *)
(* so the lock the call asks for is given back by whoever holds it.        *)
(***************************************************************************)
C15_ReleaseWhenReleasedIsNoOp ==
    /\ [](\A t \in Threads :
            /\ (op[t] = "cleanup" /\ ~is_initialized)
                   => pc[t] \in {"cl_lock", "cl_check"}
            /\ ~is_initialized => ~(lock = t /\ pc[t] \in LockLabels)
            /\ pc[t] \in {"cl_gpio", "cl_clear", "cl_reset"}
                   => is_initialized /\ lock = t)
    /\ [][\A t \in Threads :
             (op[t] = "cleanup" /\ ~is_initialized /\ Moves(t))
                 => /\ UNCHANGED <<registry, driver, is_initialized>>
                    /\ ~escaped'[t]
                    /\ pc[t] = "cl_check" => (Leaves(t) /\ lock' = Free)]_vars

\* A cleanup() has taken the lock after an earlier cleanup() had released
\* the driver and a later setup_pin had configured a pin.
C15_Witness ==
    \E t \in Threads :
        /\ op[t] = "cleanup"
        /\ pc[t] = "cl_check"
        /\ ~is_initialized
        /\ configured_pins # {}

(***************************************************************************)
(* C16: whenever the lock is free, the record of every configured pin is a *)
(* level, and it is the level the driver has for the pin.  The record of a *)
(* pin changes only in a step of the thread that holds the lock: the store *)
(* of setup_pin, turn_on / turn_off or get_pin_state, which records for    *)
(* its own pin the level the driver call of the same locked block wrote or *)
(* read, or the clear of cleanup.  The driver's level of a pin changes     *)
(* only in a step of the thread that holds the lock.                       *)
(***************************************************************************)
C16_RecordIsLastWriteOrRead ==
    /\ [](lock = Free
            => \A p \in configured_pins :
                   Record(p) \in Levels /\ Record(p) = DriverLevel(p))
    /\ [][\A p \in Pins :
             /\ RecordNext(p) # Record(p)
                    => \E t \in Threads :
                          /\ lock = t /\ Moves(t)
                          /\ \/ pc[t] = "cl_reset" /\ pin_states' = EmptyDict
                             \/ /\ pc[t] \in {"sp_store", "tn_store", "gs_store"}
                                /\ local[t].pin = p
                                /\ RecordNext(p) = DriverLevel(p)
                                /\ RecordNext(p) =
                                      (CASE pc[t] = "sp_store" -> local[t].initial_state
                                         [] pc[t] = "tn_store" -> local[t].lvl
                                         [] pc[t] = "gs_store" -> state[t])
             /\ DriverLevelNext(p) # DriverLevel(p)
                    => \E t \in Threads : lock = t /\ Moves(t)]_vars

\* The lock is free after a turn_on has raised a pin that had been configured
\* LOW, next to a configured pin that is LOW.
C16_Witness ==
    /\ lock = Free
    /\ \E p, q \in configured_pins :
          /\ Record(p) = HIGH /\ DriverLevel(p) = HIGH
          /\ Record(q) = LOW /\ DriverLevel(q) = LOW
    /\ \A t \in Threads : pc[t] = "done"

(***************************************************************************)
(* C17: a thread that sleeps in pulse or blink does not hold the lock, so  *)
(* it keeps no other thread from taking the lock and finishing its call.   *)
(* Every step of pulse and blink that changes the                          *)
(* registry or the driver is made by the holder of the lock.  blink        *)
(* returns False at the first turn_on / turn_off that returned False, and  *)
(* returns True only when range(times) is used up.                         *)
(***************************************************************************)
C17_SleepWithoutLock ==
    /\ [](\A t \in Threads : pc[t] \in SleepLabels => lock # t)
    /\ [][\A t \in Threads :
             (op[t] \in {"pulse", "blink"} /\ Moves(t))
                 => /\ ~UNCHANGED <<registry, driver>> => lock = t
                    /\ (pc[t] \in {"pl_after_on", "bk_after_on", "bk_after_off"}
                            /\ ~ret[t])
                        => Leaves(t) /\ ~ret'[t]
                    /\ (op[t] = "blink" /\ Leaves(t) /\ ret'[t])
                        => pc[t] = "bk_loop" /\ local[t].left = 0]_vars

\* One thread sleeps in pulse with its pin HIGH; meanwhile another thread
\* holds the lock in a turn_off of the same pin and has written LOW.
C17_Witness ==
    \E t, u \in Threads :
        /\ pc[t] = "pl_sleep"
        /\ op[u] = "turn_off" /\ pc[u] = "tn_store" /\ lock = u
        /\ local[u].pin = local[t].pin
        /\ Record(local[t].pin) = HIGH
        /\ DriverLevel(local[t].pin) = LOW

(***************************************************************************)
(* C20: when a pin has been configured and two toggle calls on it have     *)
(* both returned True, the pin has the level it was configured with, in    *)
(* its record and at the driver.                                           *)
(***************************************************************************)
C20_TogglesCancelOut ==
    ( /\ Len(hist) = 3
      /\ \A t \in Threads : pc[t] = "done"
      /\ hist[1].op = "setup_pin" /\ hist[1].ret
      /\ hist[2].op = "toggle" /\ hist[2].pin = hist[1].pin /\ hist[2].ret
      /\ hist[3].op = "toggle" /\ hist[3].pin = hist[1].pin /\ hist[3].ret )
        => /\ DriverLevel(hist[1].pin) = hist[1].lvl
           /\ Record(hist[1].pin) = hist[1].lvl

(***************************************************************************)
(* C18: setup_pin(p, L) on a valid pin returns False only when its driver  *)
(* call raises.  Its add leaves configured_pins as it is when p is already *)
(* in it, and no step of setup_pin takes a pin out.  When it returns True, *)
(* p is configured as an output and its record and its driver level are L, *)
(* whatever they were.  A step of setup_pin(p, L) that finds p in this     *)
(* very state changes neither the registry nor the driver: the second of   *)
(* two calls in a row leaves what the first left.                          *)
(***************************************************************************)
C18_ConfigureResets ==
    [][\A t \in Threads :
          (pc[t] \in {"sp_validate", "sp_lock", "sp_setup", "sp_add", "sp_store"}
              /\ Moves(t))
              => LET p == local[t].pin
                     L == local[t].initial_state
                 IN  /\ configured_pins \subseteq configured_pins'
                     /\ (Returns(t) /\ ~ret'[t])
                            => \/ pc[t] = "sp_validate" /\ p \notin valid_pins
                               \/ pc[t] = "sp_setup" /\ DriverRaises(t)
                     /\ (pc[t] = "sp_add" /\ Configured(p))
                            => UNCHANGED configured_pins
                     /\ pc[t] = "sp_store"
                            => /\ Returns(t) /\ ret'[t]
                               /\ UNCHANGED configured_pins
                               /\ PinViewNext(p) = <<TRUE, L, L, "OUT">>
                     /\ PinView(p) = <<TRUE, L, L, "OUT">>
                            => UNCHANGED <<registry, driver>>]_vars

\* setup_pin(p, LOW) is about to store LOW for a pin whose record is HIGH.
C18_Witness ==
    \E t \in Threads :
        /\ op[t] = "setup_pin"
        /\ pc[t] = "sp_store"
        /\ local[t].initial_state = LOW
        /\ Record(local[t].pin) = HIGH
        /\ DriverLevel(local[t].pin) = LOW

(***************************************************************************)
(* C19: whenever no call is running (the lock is free), configured_pins is *)
(* the key set of pin_states, it is the set of the pins whose setup_pin,   *)
(* called by the request or by turn_on / turn_off, returned                *)
(* True after the last cleanup() returned, and every configured pin has a  *)
(* mode at the driver.                                                     *)
(***************************************************************************)
C19_RegistryIsConfiguredSinceRelease ==
    (lock = Free /\ \A t \in Threads : pc[t] = "done")
        => /\ configured_pins = Keys(pin_states)
           /\ configured_pins = ConfiguredSinceRelease
           /\ configured_pins \subseteq Keys(mock_pin_modes)

====
